---- MODULE Spec2Model ----
(***************************************************************************)
(* Model of the real-time connection manager of the task-management        *)
(* backend: app/infrastructure/websocket.py (ConnectionManager) and its    *)
(* caller app/api/v1/endpoints/websocket.py (websocket_endpoint).          *)
(*                                                                         *)
(* Spec is the run-to-completion view: every call into the manager runs    *)
(* from its entry to its return as one step (no other coroutine is         *)
(* scheduled while the call is suspended in a send).  The calls made by a  *)
(* call (a failed send disconnects, a disconnect broadcasts a status, the  *)
(* status broadcast sends again, ...) are part of the same step.  A call    *)
(* is an operator from the manager's state to the state it leaves, with    *)
(* the log of the sends it attempted, the exception it raised and the      *)
(* value it returned; the actions apply these operators.                   *)
(***************************************************************************)
EXTENDS Integers, Sequences, FiniteSets, TLC

\* ------------------------------------------------------------------ bounds
NumUsers == 2
NumProjects == 2
MaxConnections == 2
MaxTime == 1

Users == 1..NumUsers
Projects == 1..NumProjects
ConnIds == 1..MaxConnections

\* data.get("project_id") of a frame that carries no project_id
None == 0

VARIABLES
    user_connections,       \* dict user_id -> list of connections
    connections,            \* dict connection_id -> connection: its keys, in insertion order
    project_subscriptions,  \* dict project_id -> set of user ids: its items, in insertion order
    objects,                \* the live WebSocketConnection objects, by connection_id
    endpoints,              \* the connections whose websocket_endpoint is in its message loop
    now,                    \* datetime.utcnow(), in minutes
    live,                   \* history: connections registered by connect, not yet passed to disconnect
    subscribed,             \* history: <<user, project>> whose last (un)subscribe call subscribed
    tasks,                  \* the coroutines suspended in a call: task id -> stack of frames
    stalled,                \* the connections whose peer has stopped reading
    events,                 \* the number of inbound events the server has taken
    api                     \* the task endpoints: tasks table, requests in flight, events published

vars == <<user_connections, connections, project_subscriptions, objects, endpoints, now,
          live, subscribed, tasks, stalled, events, api>>

\* ------------------------------------------------------------ Python dicts
\* project_subscriptions is a dict iterated with .items(): a sequence of
\* [key, val] entries in insertion order.
dict_keys(d) == {d[i].key : i \in DOMAIN d}

dict_get(d, k) == d[CHOOSE i \in DOMAIN d : d[i].key = k].val

dict_set(d, k, v) ==
    IF k \in dict_keys(d)
    THEN [i \in DOMAIN d |-> IF d[i].key = k THEN [key |-> k, val |-> v] ELSE d[i]]
    ELSE Append(d, [key |-> k, val |-> v])

dict_del(d, k) == SelectSeq(d, LAMBDA e : e.key # k)

\* user_connections is only read by key: a function on its keys.
map_del(f, k) == [x \in DOMAIN f \ {k} |-> f[x]]

map_set(f, k, v) == [x \in DOMAIN f \cup {k} |-> IF x = k THEN v ELSE f[x]]

\* list.__contains__ and list.remove (first occurrence) on a list of connections;
\* the keys of connections are such a list too
list_contains(lst, c) == \E i \in DOMAIN lst : lst[i] = c

list_elems(lst) == {lst[i] : i \in DOMAIN lst}

list_remove(lst, c) ==
    LET i == CHOOSE j \in DOMAIN lst : lst[j] = c /\ \A k \in 1..(j-1) : lst[k] # c
    IN  [j \in 1..(Len(lst)-1) |-> IF j < i THEN lst[j] ELSE lst[j+1]]

\* iteration of a set of user ids: the order is the hash order, here ord
set_iter(S, ord) == SelectSeq(ord, LAMBDA u : u \in S)

\* ----------------------------------------------------------------- frames
TaskEvent(user_id, project_id) ==
    [event |-> "task_event", user_id |-> user_id, status |-> "", project_id |-> project_id]

UserStatus(user_id, status) ==
    [event |-> "user_status", user_id |-> user_id, status |-> status, project_id |-> None]

Control(type, user_id, project_id) ==
    [event |-> type, user_id |-> user_id, status |-> "", project_id |-> project_id]

\* ------------------------------------------------------------ the manager
\* The state a call works on, with the call's log of send attempts, the status
\* broadcasts it made, its pending exception and the value it returns.
World ==
    [user_connections |-> user_connections,
     connections |-> connections,
     project_subscriptions |-> project_subscriptions,
     objects |-> objects,
     live |-> live,
     subscribed |-> subscribed,
     tasks |-> tasks,
     log |-> <<>>,
     statuses |-> <<>>,
     raised |-> "none",
     ret |-> TRUE]

\* one send attempt on connection c: the frame, and whether it was written
logged(m, c, msg, ok) ==
    [m EXCEPT !.log = Append(@, [to |-> c, user_id |-> m.objects[c].user_id,
                                 frame |-> msg, ok |-> ok])]

\* A call is written rest(call): rest is what the body does after the call
\* has returned, and an exception raised by the call ends the body.

RECURSIVE disconnect(_, _, _)
RECURSIVE send_to_connection(_, _, _, _)
RECURSIVE send_to_user(_, _, _, _)
RECURSIVE send_to_user_loop(_, _, _, _, _, _)
RECURSIVE send_to_user_cleanup(_, _, _, _)
RECURSIVE broadcast_to_project(_, _, _, _, _)
RECURSIVE broadcast_to_project_loop(_, _, _, _, _)
RECURSIVE broadcast_user_status(_, _, _, _)
RECURSIVE broadcast_user_status_loop(_, _, _, _, _)

\* faulty variant of disconnect: the connection's key stays in connections
disconnect_keeps_key(m, c, ord) ==
    LET user_id == m.objects[c].user_id
        uc == m.user_connections
        m0 == [m EXCEPT !.live = @ \ {c}]
    IN  IF user_id \in DOMAIN uc
        THEN LET lst == IF list_contains(uc[user_id], c)
                        THEN list_remove(uc[user_id], c)
                        ELSE uc[user_id]
             IN  IF lst = <<>>
                 THEN broadcast_user_status(
                          [m0 EXCEPT !.user_connections = map_del(uc, user_id)],
                          user_id, "offline", ord)
                 ELSE [m0 EXCEPT !.user_connections[user_id] = lst]
        ELSE m0

\* faulty variant of disconnect: list.remove and del without the membership tests
disconnect_unguarded(m, c, ord) ==
    LET user_id == m.objects[c].user_id
        uc == m.user_connections
        m0 == [m EXCEPT !.live = @ \ {c}]
    IN  IF user_id \notin DOMAIN uc
        THEN [m0 EXCEPT !.raised = "KeyError"]
        ELSE IF ~list_contains(uc[user_id], c)
        THEN [m0 EXCEPT !.raised = "ValueError"]
        ELSE LET lst == list_remove(uc[user_id], c)
                 rest(m1) == IF m1.raised # "none"
                             THEN m1
                             ELSE IF list_contains(m1.connections, c)
                             THEN [m1 EXCEPT !.connections = list_remove(@, c)]
                             ELSE [m1 EXCEPT !.raised = "KeyError"]
             IN  rest(IF lst = <<>>
                      THEN broadcast_user_status(
                               [m0 EXCEPT !.user_connections = map_del(uc, user_id)],
                               user_id, "offline", ord)
                      ELSE [m0 EXCEPT !.user_connections[user_id] = lst])

\* faulty variant of disconnect: the offline status is broadcast whether or not
\* the user's list is empty
disconnect_always_offline(m, c, ord) ==
    LET user_id == m.objects[c].user_id
        uc == m.user_connections
        m0 == [m EXCEPT !.live = @ \ {c}]
        rest(m1) == IF m1.raised # "none"
                    THEN m1
                    ELSE IF list_contains(m1.connections, c)
                    THEN [m1 EXCEPT !.connections = list_remove(@, c)]
                    ELSE m1
    IN  rest(IF user_id \in DOMAIN uc
             THEN LET lst == IF list_contains(uc[user_id], c)
                             THEN list_remove(uc[user_id], c)
                             ELSE uc[user_id]
                  IN  broadcast_user_status(
                          [m0 EXCEPT !.user_connections =
                                         IF lst = <<>>
                                         THEN map_del(uc, user_id)
                                         ELSE map_set(uc, user_id, lst)],
                          user_id, "offline", ord)
             ELSE m0)

\* ConnectionManager.disconnect (m0 notes the call in the history)
disconnect(m, c, ord) ==
    LET user_id == m.objects[c].user_id
        uc == m.user_connections
        m0 == [m EXCEPT !.live = @ \ {c}]
        rest(m1) == IF m1.raised # "none"
                    THEN m1
                    ELSE IF list_contains(m1.connections, c)
                    THEN [m1 EXCEPT !.connections = list_remove(@, c)]
                    ELSE m1
    IN  rest(IF user_id \in DOMAIN uc
             THEN LET lst == IF list_contains(uc[user_id], c)
                             THEN list_remove(uc[user_id], c)
                             ELSE uc[user_id]
                  IN  IF lst = <<>>
                      THEN broadcast_user_status(
                               [m0 EXCEPT !.user_connections = map_del(uc, user_id)],
                               user_id, "offline", ord)
                      ELSE [m0 EXCEPT !.user_connections[user_id] = lst]
             ELSE m0)

\* faulty variant of send_to_connection: no try/except around the send
send_to_connection_uncaught(m, c, msg, ord) ==
    IF m.objects[c].client_state # "CONNECTED"
    THEN [disconnect(logged(m, c, msg, FALSE), c, ord) EXCEPT !.ret = FALSE]
    ELSE IF m.objects[c].send_raises
    THEN [logged(m, c, msg, FALSE) EXCEPT !.raised = "send_text"]
    ELSE [logged(m, c, msg, TRUE) EXCEPT !.ret = TRUE]

\* faulty variant of send_to_connection: a failed write is tried once more
\* before the connection is given up
send_to_connection_retries(m, c, msg, ord) ==
    LET except(d) == IF d.raised = "none"
                     THEN d
                     ELSE disconnect([d EXCEPT !.raised = "none"], c, ord)
    IN  IF m.objects[c].client_state # "CONNECTED"
        THEN [except(disconnect(logged(m, c, msg, FALSE), c, ord)) EXCEPT !.ret = FALSE]
        ELSE IF m.objects[c].send_raises
        THEN [disconnect(logged(logged(m, c, msg, FALSE), c, msg, FALSE), c, ord)
                 EXCEPT !.ret = FALSE]
        ELSE [logged(m, c, msg, TRUE) EXCEPT !.ret = TRUE]

\* ConnectionManager._send_to_connection; ret is its return value.  The
\* disconnect of a transport that is not CONNECTED runs inside the try: were
\* it to raise, the except clause would disconnect again.
send_to_connection(m, c, msg, ord) ==
    LET except(d) == IF d.raised = "none"
                     THEN d
                     ELSE disconnect([d EXCEPT !.raised = "none"], c, ord)
    IN  IF m.objects[c].client_state # "CONNECTED"
        THEN [except(disconnect(logged(m, c, msg, FALSE), c, ord)) EXCEPT !.ret = FALSE]
        ELSE IF m.objects[c].send_raises
        THEN [disconnect(logged(m, c, msg, FALSE), c, ord) EXCEPT !.ret = FALSE]
        ELSE [logged(m, c, msg, TRUE) EXCEPT !.ret = TRUE]

\* ConnectionManager.send_to_user: the second loop, over dead_connections
send_to_user_cleanup(m, dead, k, ord) ==
    LET rest(d) == IF d.raised # "none"
                   THEN d
                   ELSE send_to_user_cleanup(d, dead, k + 1, ord)
    IN  IF k > Len(dead) THEN m ELSE rest(disconnect(m, dead[k], ord))

\* ConnectionManager.send_to_user: the first loop.  The list iterator holds the
\* list object and an index i; a disconnect made by a failed send removes from
\* that same list, and deletes the user's entry when it empties the list.
send_to_user_loop(m, user_id, msg, i, dead, ord) ==
    LET lst == IF user_id \in DOMAIN m.user_connections
               THEN m.user_connections[user_id]
               ELSE <<>>
        rest(r) == IF r.raised # "none"
                   THEN r
                   ELSE send_to_user_loop(r, user_id, msg, i + 1,
                            IF r.ret THEN dead ELSE Append(dead, lst[i]), ord)
    IN  IF i > Len(lst)
        THEN send_to_user_cleanup(m, dead, 1, ord)
        ELSE rest(send_to_connection(m, lst[i], msg, ord))

\* faulty variant of send_to_user: only the user's first connection is written to
send_to_user_first_device(m, user_id, msg, ord) ==
    LET rest(r) == IF r.raised # "none" \/ r.ret
                   THEN r
                   ELSE send_to_user_cleanup(r, <<m.user_connections[user_id][1]>>, 1, ord)
    IN  IF user_id \notin DOMAIN m.user_connections
        THEN m
        ELSE rest(send_to_connection(m, m.user_connections[user_id][1], msg, ord))

\* ConnectionManager.send_to_user
send_to_user(m, user_id, msg, ord) ==
    IF user_id \notin DOMAIN m.user_connections
    THEN m
    ELSE send_to_user_loop(m, user_id, msg, 1, <<>>, ord)

\* faulty variant of broadcast_to_project_loop: exclude_user_id is not skipped
broadcast_to_project_echo(m, todo, msg, exclude_user_id, ord) ==
    LET rest(r) == IF r.raised # "none"
                   THEN r
                   ELSE broadcast_to_project_loop(r, Tail(todo), msg, exclude_user_id, ord)
    IN  IF todo = <<>> THEN m ELSE rest(send_to_user(m, Head(todo), msg, ord))

\* ConnectionManager.broadcast_to_project: the loop over the subscriber set
broadcast_to_project_loop(m, todo, msg, exclude_user_id, ord) ==
    LET rest(r) == IF r.raised # "none"
                   THEN r
                   ELSE broadcast_to_project_loop(r, Tail(todo), msg, exclude_user_id, ord)
    IN  IF todo = <<>>
        THEN m
        ELSE rest(IF exclude_user_id # None /\ Head(todo) = exclude_user_id
                  THEN m
                  ELSE send_to_user(m, Head(todo), msg, ord))

\* ConnectionManager.broadcast_to_project
broadcast_to_project(m, project_id, msg, exclude_user_id, ord) ==
    IF project_id \notin dict_keys(m.project_subscriptions)
    THEN m
    ELSE broadcast_to_project_loop(
             m, set_iter(dict_get(m.project_subscriptions, project_id), ord),
             msg, exclude_user_id, ord)

\* ConnectionManager._broadcast_user_status: the loop over the dict's items
broadcast_user_status_loop(m, user_id, status, i, ord) ==
    LET rest(r) == IF r.raised # "none"
                   THEN r
                   ELSE broadcast_user_status_loop(r, user_id, status, i + 1, ord)
    IN  IF i > Len(m.project_subscriptions)
        THEN m
        ELSE rest(IF user_id \in m.project_subscriptions[i].val
                  THEN broadcast_to_project(m, m.project_subscriptions[i].key,
                                            UserStatus(user_id, status), user_id, ord)
                  ELSE m)

\* ConnectionManager._broadcast_user_status (the call is noted in statuses)
broadcast_user_status(m, user_id, status, ord) ==
    broadcast_user_status_loop(
        [m EXCEPT !.statuses = Append(@, [user_id |-> user_id, status |-> status])],
        user_id, status, 1, ord)

\* ConnectionManager.broadcast_task_event
broadcast_task_event(m, user_id, project_id, ord) ==
    broadcast_to_project(m, project_id, TaskEvent(user_id, project_id), user_id, ord)

\* faulty variant of subscribe_to_project: the subscriber set is replaced, not added to
subscribe_to_project_replaces(m, user_id, project_id) ==
    [m EXCEPT !.project_subscriptions = dict_set(@, project_id, {user_id}),
              !.subscribed = @ \cup {<<user_id, project_id>>}]

\* ConnectionManager.subscribe_to_project (it notes the call in the history)
subscribe_to_project(m, user_id, project_id) ==
    LET subs == m.project_subscriptions
        old == IF project_id \in dict_keys(subs) THEN dict_get(subs, project_id) ELSE {}
    IN  [m EXCEPT !.project_subscriptions = dict_set(subs, project_id, old \cup {user_id}),
                  !.subscribed = @ \cup {<<user_id, project_id>>}]

\* faulty variant of unsubscribe_from_project: an emptied subscriber set is kept
unsubscribe_from_project_keeps_empty(m, user_id, project_id) ==
    LET subs == m.project_subscriptions
        m0 == [m EXCEPT !.subscribed = @ \ {<<user_id, project_id>>}]
    IN  IF project_id \in dict_keys(subs)
        THEN [m0 EXCEPT !.project_subscriptions =
                            dict_set(subs, project_id, dict_get(subs, project_id) \ {user_id})]
        ELSE m0

\* ConnectionManager.unsubscribe_from_project (m0 notes the call in the history)
unsubscribe_from_project(m, user_id, project_id) ==
    LET subs == m.project_subscriptions
        m0 == [m EXCEPT !.subscribed = @ \ {<<user_id, project_id>>}]
    IN  IF project_id \in dict_keys(subs)
        THEN LET left == dict_get(subs, project_id) \ {user_id}
             IN  IF left = {}
                 THEN [m0 EXCEPT !.project_subscriptions = dict_del(subs, project_id)]
                 ELSE [m0 EXCEPT !.project_subscriptions = dict_set(subs, project_id, left)]
        ELSE m0

\* the connection id of a new connection (uuid4): the least id that no live
\* connection object bears
fresh_id(m) ==
    CHOOSE i \in ConnIds \ DOMAIN m.objects : \A j \in ConnIds \ DOMAIN m.objects : i <= j

\* faulty variant of connect: the connection is not added to its user's list
connect_not_listed(m, user_id, send_raises, ord) ==
    LET c == fresh_id(m)
        rest(m2) == IF m2.raised # "none"
                    THEN m2
                    ELSE broadcast_user_status(m2, user_id, "online", ord)
    IN  [rest(send_to_connection(
                  [m EXCEPT
                     !.objects = map_set(@, c, [user_id |-> user_id, last_ping |-> now,
                                                client_state |-> "CONNECTED",
                                                send_raises |-> send_raises]),
                     !.connections = Append(@, c),
                     !.live = @ \cup {c}],
                  c, Control("connected", user_id, None), ord))
            EXCEPT !.ret = c]

\* ConnectionManager.connect, after websocket.accept() has returned; ret is
\* the connection.  The online status is broadcast whatever the confirmation
\* send returned.
connect(m, user_id, send_raises, ord) ==
    LET c  == fresh_id(m)
        uc == m.user_connections
        rest(m2) == IF m2.raised # "none"
                    THEN m2
                    ELSE broadcast_user_status(m2, user_id, "online", ord)
    IN  [rest(send_to_connection(
                  [m EXCEPT
                     !.objects = map_set(@, c, [user_id |-> user_id, last_ping |-> now,
                                                client_state |-> "CONNECTED",
                                                send_raises |-> send_raises]),
                     !.user_connections =
                         map_set(uc, user_id,
                                 Append(IF user_id \in DOMAIN uc THEN uc[user_id] ELSE <<>>,
                                        c)),
                     !.connections = Append(@, c),
                     !.live = @ \cup {c}],
                  c, Control("connected", user_id, None), ord))
            EXCEPT !.ret = c]

\* faulty variant of handle_message: a ping is answered but the heartbeat
\* timestamp is left alone
handle_message_no_heartbeat(m, c, data, ord) ==
    IF data.type = "ping"
    THEN send_to_connection(m, c, Control("pong", None, None), ord)
    ELSE IF data.type = "subscribe_project"
    THEN IF data.project_id # None
         THEN send_to_connection(
                  subscribe_to_project(m, m.objects[c].user_id, data.project_id), c,
                  Control("subscribed", None, data.project_id), ord)
         ELSE m
    ELSE IF data.type = "unsubscribe_project"
    THEN IF data.project_id # None
         THEN send_to_connection(
                  unsubscribe_from_project(m, m.objects[c].user_id, data.project_id), c,
                  Control("unsubscribed", None, data.project_id), ord)
         ELSE m
    ELSE m

\* faulty variant of handle_message: the ack of a subscribe or unsubscribe
\* goes to every connection of the user
handle_message_ack_to_user(m, c, data, ord) ==
    IF data.type = "ping"
    THEN send_to_connection([m EXCEPT !.objects[c].last_ping = now], c,
                            Control("pong", None, None), ord)
    ELSE IF data.type = "subscribe_project"
    THEN IF data.project_id # None
         THEN send_to_user(
                  subscribe_to_project(m, m.objects[c].user_id, data.project_id),
                  m.objects[c].user_id,
                  Control("subscribed", None, data.project_id), ord)
         ELSE m
    ELSE IF data.type = "unsubscribe_project"
    THEN IF data.project_id # None
         THEN send_to_user(
                  unsubscribe_from_project(m, m.objects[c].user_id, data.project_id),
                  m.objects[c].user_id,
                  Control("unsubscribed", None, data.project_id), ord)
         ELSE m
    ELSE m

\* ConnectionManager.handle_message; data is the parsed frame
handle_message(m, c, data, ord) ==
    IF data.type = "ping"
    THEN send_to_connection([m EXCEPT !.objects[c].last_ping = now], c,
                            Control("pong", None, None), ord)
    ELSE IF data.type = "subscribe_project"
    THEN IF data.project_id # None
         THEN send_to_connection(
                  subscribe_to_project(m, m.objects[c].user_id, data.project_id), c,
                  Control("subscribed", None, data.project_id), ord)
         ELSE m
    ELSE IF data.type = "unsubscribe_project"
    THEN IF data.project_id # None
         THEN send_to_connection(
                  unsubscribe_from_project(m, m.objects[c].user_id, data.project_id), c,
                  Control("unsubscribed", None, data.project_id), ord)
         ELSE m
    ELSE m

\* ConnectionManager.cleanup_stale_connections: the loop over stale_connections
RECURSIVE cleanup_stale_loop(_, _, _, _)
cleanup_stale_loop(m, stale, k, ord) ==
    LET rest(d) == IF d.raised # "none"
                   THEN d
                   ELSE cleanup_stale_loop(d, stale, k + 1, ord)
    IN  IF k > Len(stale)
        THEN [m EXCEPT !.ret = Len(stale)]
        ELSE rest(disconnect(m, stale[k], ord))

\* ConnectionManager.cleanup_stale_connections; ret is the count it returns
cleanup_stale_connections(m, max_ping_age_minutes, ord) ==
    LET cutoff_time == now - max_ping_age_minutes
        stale == SelectSeq(m.connections,
                           LAMBDA c : m.objects[c].last_ping < cutoff_time)
    IN  cleanup_stale_loop(m, stale, 1, ord)

\* websocket_endpoint: how a turn of the message loop ends.  An exception that
\* leaves the loop body breaks the loop and the finally clause disconnects;
\* ret is the coroutine's position afterwards.
endpoint_turn(h, c, ord) ==
    IF h.raised = "none"
    THEN [h EXCEPT !.ret = "loop"]
    ELSE [disconnect([h EXCEPT !.raised = "none"], c, ord) EXCEPT !.ret = "closed"]

\* faulty variant of endpoint_receive: a frame that is not JSON is treated as
\* an error of the loop, which breaks
endpoint_receive_breaks(m, c, data, ord) ==
    LET except(r) == IF r.raised = "none"
                     THEN r
                     ELSE send_to_connection([r EXCEPT !.raised = "none"], c,
                                             Control("error", None, None), ord)
    IN  endpoint_turn(
            IF data.type = "invalid_json"
            THEN [send_to_connection(m, c, Control("error", None, None), ord)
                     EXCEPT !.raised = "JSONDecodeError"]
            ELSE except(handle_message(m, c, data, ord)),
            c, ord)

\* websocket_endpoint: one turn of the message loop on a received text frame
endpoint_receive(m, c, data, ord) ==
    LET except(r) == IF r.raised = "none"
                     THEN r
                     ELSE send_to_connection([r EXCEPT !.raised = "none"], c,
                                             Control("error", None, None), ord)
    IN  endpoint_turn(
            IF data.type = "invalid_json"
            THEN send_to_connection(m, c, Control("error", None, None), ord)
            ELSE except(handle_message(m, c, data, ord)),
            c, ord)

\* faulty variant of endpoint_timeout: the timeout ends the loop
endpoint_timeout_breaks(m, c, ord) ==
    [disconnect(send_to_connection(m, c, Control("ping", None, None), ord), c, ord)
        EXCEPT !.ret = "closed"]

\* websocket_endpoint: asyncio.TimeoutError in the message loop
endpoint_timeout(m, c, ord) ==
    endpoint_turn(send_to_connection(m, c, Control("ping", None, None), ord), c, ord)

\* websocket_endpoint: receive raises (WebSocketDisconnect or another
\* exception), the loop breaks and the finally clause disconnects
endpoint_close(m, c, ord) ==
    [disconnect([m EXCEPT !.objects[c].client_state = "DISCONNECTED"], c, ord)
        EXCEPT !.ret = "closed"]

\* --------------------------------------------------------- task endpoints
\* api/v1/endpoints/tasks.py over repositories/task_repository.py.  A request
\* is a coroutine that is suspended at each statement it awaits on the
\* session; a call record keeps its position (pc), the Task object it holds
\* (task), whether its mutation has been committed, the exception that ended
\* it (raised) and its response.

\* rows of the tasks table
MaxTasks == 2

\* task requests made in one run
MaxCalls == 2

TaskIds == 1..MaxTasks

\* the tasks table when the server starts: one task exists
Tables == [t \in TaskIds |-> IF t = 1 THEN "live" ELSE "absent"]

Call(op, task_id, fields, hard, pc) ==
    [op |-> op, task_id |-> task_id, fields |-> fields, hard |-> hard, pc |-> pc,
     task |-> None, committed |-> FALSE, raised |-> "none", response |-> "pending"]

\* an exception leaves the endpoint
fail(a, k, exception) ==
    [a EXCEPT !.calls[k].raised = exception, !.calls[k].response = "error",
              !.calls[k].pc = "done"]

\* the endpoint returns its response
respond(a, k) == [a EXCEPT !.calls[k].response = "ok", !.calls[k].pc = "done"]

\* TaskRepository.get_by_id: the task if it exists and is not deleted
get_by_id(a, task_id) == IF a.tasks[task_id] = "live" THEN task_id ELSE None

\* TaskEventBroadcaster.broadcast_task_event.  manager.broadcast_task_event is
\* called with the event (published; ok tells whether it returned or raised)
\* and its exception is logged and swallowed.  Without a task the event cannot
\* be built, and the except clause, which formats task.id, raises in turn.
TaskEventBroadcaster_broadcast_task_event(a, k, event_type, task, manager_raises) ==
    IF task = None
    THEN [a EXCEPT !.calls[k].raised = "AttributeError"]
    ELSE [a EXCEPT !.published = Append(@, [call |-> k, event_type |-> event_type,
                                            task_id |-> task, ok |-> ~manager_raises])]

\* the last statements of an endpoint: broadcast the event, build the response
broadcast_and_respond(a, k, event_type, manager_raises) ==
    LET b == TaskEventBroadcaster_broadcast_task_event(
                 a, k, event_type, a.calls[k].task, manager_raises)
    IN  IF b.calls[k].raised # "none"
        THEN fail(b, k, b.calls[k].raised)
        ELSE respond(b, k)

\* create_task; ok: the commit of this step succeeds
create_task(a, k, ok, manager_raises) ==
    LET c == a.calls[k]
    IN  IF c.pc = "create"
        THEN \* TaskRepository.create: the task is added and committed
             IF ~ok
             THEN fail(a, k, "DBError")
             ELSE [a EXCEPT !.tasks[c.task_id] = "live", !.calls[k].task = c.task_id,
                            !.calls[k].committed = TRUE, !.calls[k].pc = "history"]
        ELSE IF c.pc = "history"
        THEN \* TaskRepository.create: the history entry is committed
             IF ~ok THEN fail(a, k, "DBError") ELSE [a EXCEPT !.calls[k].pc = "broadcast"]
        ELSE broadcast_and_respond(a, k, "task_created", manager_raises)

\* TaskRepository.update and what follows it in update_task and complete_task
modify_task(a, k, event_type, ok, manager_raises) ==
    LET c == a.calls[k]
    IN  IF c.pc = "update"
        THEN \* the UPDATE matches no row, or it is committed
             IF a.tasks[c.task_id] # "live"
             THEN fail(a, k, "ValueError")
             ELSE IF ~ok
             THEN fail(a, k, "DBError")
             ELSE [a EXCEPT !.calls[k].committed = TRUE, !.calls[k].pc = "refetch"]
        ELSE IF c.pc = "refetch"
        THEN \* updated_task = await self.get_by_id(task_id, user_id)
             [a EXCEPT !.calls[k].task = get_by_id(a, c.task_id),
                       !.calls[k].pc = "broadcast"]
        ELSE broadcast_and_respond(a, k, event_type, manager_raises)

\* faulty variant of update_task: a request without fields publishes too
update_task_always_publishes(a, k, ok, manager_raises) ==
    LET c == a.calls[k]
    IN  IF c.pc = "check"
        THEN IF get_by_id(a, c.task_id) = None
             THEN fail(a, k, "NotFoundError")
             ELSE IF ~c.fields
             THEN [a EXCEPT !.calls[k].task = c.task_id, !.calls[k].pc = "broadcast"]
             ELSE [a EXCEPT !.calls[k].pc = "update"]
        ELSE IF c.pc = "current"
        THEN IF get_by_id(a, c.task_id) = None
             THEN fail(a, k, "AttributeError")
             ELSE respond(a, k)
        ELSE modify_task(a, k, "task_updated", ok, manager_raises)

\* update_task
update_task(a, k, ok, manager_raises) ==
    LET c == a.calls[k]
    IN  IF c.pc = "check"
        THEN \* check_task_access, then request.dict(exclude_unset=True)
             IF get_by_id(a, c.task_id) = None
             THEN fail(a, k, "NotFoundError")
             ELSE IF ~c.fields
             THEN [a EXCEPT !.calls[k].pc = "current"]
             ELSE [a EXCEPT !.calls[k].pc = "update"]
        ELSE IF c.pc = "current"
        THEN \* no update fields: the current task is fetched and returned
             IF get_by_id(a, c.task_id) = None
             THEN fail(a, k, "AttributeError")
             ELSE respond(a, k)
        ELSE modify_task(a, k, "task_updated", ok, manager_raises)

\* complete_task
complete_task(a, k, ok, manager_raises) ==
    LET c == a.calls[k]
    IN  IF c.pc = "check"
        THEN IF get_by_id(a, c.task_id) = None
             THEN fail(a, k, "NotFoundError")
             ELSE [a EXCEPT !.calls[k].pc = "update"]
        ELSE modify_task(a, k, "task_completed", ok, manager_raises)

\* delete_task
delete_task(a, k, ok, manager_raises) ==
    LET c == a.calls[k]
    IN  IF c.pc = "check"
        THEN \* check_task_access returns the task the event is built from
             IF get_by_id(a, c.task_id) = None
             THEN fail(a, k, "NotFoundError")
             ELSE [a EXCEPT !.calls[k].task = c.task_id, !.calls[k].pc = "delete"]
        ELSE IF c.pc = "delete"
        THEN \* TaskRepository.delete: DELETE with its history entry, or the
             \* soft delete through TaskRepository.update
             IF a.tasks[c.task_id] \notin (IF c.hard THEN {"live", "deleted"} ELSE {"live"})
             THEN fail(a, k, "ValueError")
             ELSE IF ~ok
             THEN fail(a, k, "DBError")
             ELSE [a EXCEPT !.tasks[c.task_id] = IF c.hard THEN "removed" ELSE "deleted",
                            !.calls[k].committed = TRUE,
                            !.calls[k].pc = IF c.hard THEN "broadcast" ELSE "history"]
        ELSE IF c.pc = "history"
        THEN IF ~ok THEN fail(a, k, "DBError") ELSE [a EXCEPT !.calls[k].pc = "broadcast"]
        ELSE broadcast_and_respond(a, k, "task_deleted", manager_raises)

\* ----------------------------------------------------------------- actions
Commit(r) ==
    /\ user_connections' = r.user_connections
    /\ connections' = r.connections
    /\ project_subscriptions' = r.project_subscriptions
    /\ objects' = r.objects
    /\ live' = r.live
    /\ subscribed' = r.subscribed

\* the coroutine of connection c has returned: its connection object is
\* garbage once the manager no longer holds it
Collect(r, c) ==
    IF list_contains(r.connections, c)
       \/ \E u \in DOMAIN r.user_connections : list_contains(r.user_connections[u], c)
    THEN r
    ELSE [r EXCEPT !.objects = map_del(@, c)]

Finish(r, c) == IF r.ret = "closed" THEN Collect(r, c) ELSE r

Init ==
    /\ user_connections = << >>
    /\ connections = << >>
    /\ project_subscriptions = << >>
    /\ objects = << >>
    /\ endpoints = {}
    /\ now = 0
    /\ live = {}
    /\ subscribed = {}
    /\ tasks = << >>
    /\ stalled = {}
    /\ events = 0
    /\ api = [tasks |-> Tables, calls |-> << >>, published |-> << >>]

\* the tokens a client may present: the token of a user (the user's id stands
\* for it) or one that verifies to no user
Tokens == Users \cup {None}

\* starlette.status.WS_1008_POLICY_VIOLATION
WS_1008_POLICY_VIOLATION == 1008

\* get_current_user_websocket: the user of a token, None when the verification
\* finds no user or raises
get_current_user_websocket(token) == IF token \in Users THEN token ELSE None

\* faulty variant of websocket_endpoint_connect: the connection is registered
\* before the token is looked at
websocket_endpoint_connect_unverified(m, token, send_raises, ord) ==
    LET user == get_current_user_websocket(token)
    IN  IF user = None
        THEN [connect(m, token, send_raises, ord) EXCEPT !.ret = WS_1008_POLICY_VIOLATION]
        ELSE connect(m, user, send_raises, ord)

\* websocket_endpoint up to the message loop: without a user the transport is
\* closed with the policy-violation code (ret) and the handler returns,
\* otherwise manager.connect registers the connection (ret)
websocket_endpoint_connect(m, token, send_raises, ord) ==
    LET user == get_current_user_websocket(token)
    IN  IF user = None
        THEN [m EXCEPT !.ret = WS_1008_POLICY_VIOLATION]
        ELSE connect(m, user, send_raises, ord)

\* websocket_endpoint up to the message loop: the handshake is rejected, or
\* accepted and the handler enters the loop with its connection
Connect(token) ==
    /\ DOMAIN objects # ConnIds
    /\ \E send_raises \in BOOLEAN, ord \in Permutations(Users) :
         LET r == websocket_endpoint_connect(World, token, send_raises, ord)
         IN  /\ Commit(r)
             /\ endpoints' = IF r.raised = "none" /\ r.ret \in ConnIds
                             THEN endpoints \cup {r.ret}
                             ELSE endpoints
    /\ UNCHANGED <<now, tasks, stalled, events, api>>

Messages ==
    [type : {"ping", "unknown", "invalid_json"}, project_id : {None}]
    \cup [type : {"subscribe_project", "unsubscribe_project"},
          project_id : Projects \cup {None}]

\* websocket_endpoint: a text frame arrives on an open transport
Receive(c) ==
    /\ c \in endpoints
    /\ objects[c].client_state = "CONNECTED"
    /\ \E data \in Messages, ord \in Permutations(Users) :
         LET r == endpoint_receive(World, c, data, ord)
         IN  /\ Commit(Finish(r, c))
             /\ endpoints' = IF r.ret = "closed" THEN endpoints \ {c} ELSE endpoints
    /\ UNCHANGED <<now, tasks, stalled, events, api>>

\* websocket_endpoint: no frame within the receive timeout
ReceiveTimeout(c) ==
    /\ c \in endpoints
    /\ \E ord \in Permutations(Users) :
         LET r == endpoint_timeout(World, c, ord)
         IN  /\ Commit(Finish(r, c))
             /\ endpoints' = IF r.ret = "closed" THEN endpoints \ {c} ELSE endpoints
    /\ UNCHANGED <<now, tasks, stalled, events, api>>

\* websocket_endpoint: the receive loop ends and the handler cleans up
Close(c) ==
    /\ c \in endpoints
    /\ \E ord \in Permutations(Users) :
         LET r == endpoint_close(World, c, ord)
         IN  /\ Commit(Finish(r, c))
             /\ endpoints' = endpoints \ {c}
    /\ UNCHANGED <<now, tasks, stalled, events, api>>

\* a task endpoint publishes an event of user_id on project_id
BroadcastTaskEvent(user_id, project_id) ==
    /\ \E ord \in Permutations(Users) :
         Commit(broadcast_task_event(World, user_id, project_id, ord))
    /\ UNCHANGED <<endpoints, now, tasks, stalled, events, api>>

\* POST /ws/cleanup
CleanupStaleConnections(max_ping_age_minutes) ==
    /\ \E ord \in Permutations(Users) :
         Commit(cleanup_stale_connections(World, max_ping_age_minutes, ord))
    /\ UNCHANGED <<endpoints, now, tasks, stalled, events, api>>

\* the transport of an open connection starts to fail: the peer is gone
\* (client_state leaves CONNECTED) or writes raise
TransportFails(c) ==
    /\ c \in endpoints
    /\ objects[c].client_state = "CONNECTED"
    /\ ~objects[c].send_raises
    /\ \E how \in {"client_state", "send_text"} :
         objects' = IF how = "client_state"
                    THEN [objects EXCEPT ![c].client_state = "DISCONNECTED"]
                    ELSE [objects EXCEPT ![c].send_raises = TRUE]
    /\ UNCHANGED <<user_connections, connections, project_subscriptions, endpoints, now,
                   live, subscribed, tasks, stalled, events, api>>

\* time passes
Tick ==
    /\ now < MaxTime
    /\ now' = now + 1
    /\ UNCHANGED <<user_connections, connections, project_subscriptions, objects, endpoints,
                   live, subscribed, tasks, stalled, events, api>>

Next ==
    \/ \E token \in Tokens : Connect(token)
    \/ \E c \in ConnIds : Receive(c)
    \/ \E c \in ConnIds : ReceiveTimeout(c)
    \/ \E c \in ConnIds : Close(c)
    \/ \E u \in Users, p \in Projects : BroadcastTaskEvent(u, p)
    \/ \E age \in 0..MaxTime : CleanupStaleConnections(age)
    \/ \E c \in ConnIds : TransportFails(c)
    \/ Tick

Spec == Init /\ [][Next]_vars

\* -------------------------------------------------------------- coroutines
\* ConcSpec is the asyncio view.  A coroutine runs until it awaits a write to a
\* transport (websocket.send_text) or the next inbound frame; while it is
\* suspended the other coroutines run.  A suspended coroutine is a stack of
\* frames, one per call in progress, each holding the locals of the call: its
\* position, its iterator and what it collected.  The manager has no lock, so
\* a frame's iterator may find its container changed when the coroutine
\* resumes:
\*   - a list iterator is an index into the list object; the list of a user
\*     whose entry was deleted is empty for good (gone), whatever list the
\*     user gets later;
\*   - a set or dict iterator raises RuntimeError when the size differs from
\*     the size at its creation; when the container changed and has that size
\*     again (dirty), what is left to visit depends on the hash table's
\*     layout: any selection of the current elements.

\* HTTP requests (task events, sweeps) in flight at one time
MaxRequests == 1

\* the inbound events (handshakes, frames, timeouts, closes, requests) of a run
MaxEvents == 4

\* a handler's task bears its connection's id
Requests == (MaxConnections + 1)..(MaxConnections + MaxRequests)

Frame(fn, pc) ==
    [fn |-> fn, pc |-> pc, c |-> None, user_id |-> None, project_id |-> None,
     msg |-> Control("", None, None), todo |-> << >>, dead |-> << >>, i |-> 0, n |-> 0,
     gone |-> FALSE, dirty |-> FALSE, foreign |-> FALSE]

\* what an iterator makes of a container that changed under it
Choices == [ord : Permutations(Users), users : SUBSET Users, projects : SUBSET Projects]

top(m, t) == m.tasks[t][Len(m.tasks[t])]

push(m, t, f) == [m EXCEPT !.tasks[t] = Append(@, f)]

pop(m, t) == [m EXCEPT !.tasks[t] = SubSeq(@, 1, Len(@) - 1)]

goto(m, t, f) == [m EXCEPT !.tasks[t][Len(m.tasks[t])] = f]

dict_key_list(d) == [k \in DOMAIN d |-> d[k].key]

\* the calls: each pushes the frame of the callee
call_send_to_connection(m, t, c, msg) ==
    push(m, t, [Frame("_send_to_connection", "start") EXCEPT !.c = c, !.msg = msg])

call_disconnect(m, t, c) == push(m, t, [Frame("disconnect", "start") EXCEPT !.c = c])

call_broadcast_user_status(m, t, user_id, status) ==
    push([m EXCEPT !.statuses = Append(@, [user_id |-> user_id, status |-> status])], t,
         [Frame("_broadcast_user_status", "loop") EXCEPT
            !.user_id = user_id, !.msg = UserStatus(user_id, status),
            !.todo = dict_key_list(m.project_subscriptions),
            !.n = Len(m.project_subscriptions)])

call_broadcast_to_project(m, t, project_id, msg, exclude_user_id, ch) ==
    IF project_id \notin dict_keys(m.project_subscriptions)
    THEN m
    ELSE push(m, t, [Frame("broadcast_to_project", "loop") EXCEPT
                       !.project_id = project_id, !.msg = msg, !.user_id = exclude_user_id,
                       !.todo = set_iter(dict_get(m.project_subscriptions, project_id), ch.ord),
                       !.n = Cardinality(dict_get(m.project_subscriptions, project_id))])

call_send_to_user(m, t, user_id, msg) ==
    IF user_id \notin DOMAIN m.user_connections
    THEN m
    ELSE push(m, t, [Frame("send_to_user", "loop") EXCEPT
                       !.user_id = user_id, !.msg = msg, !.i = 1])

\* ConnectionManager._send_to_connection, up to the write and after a
\* disconnect it called
step_send_to_connection(m, t, f) ==
    IF f.pc = "start"
    THEN IF m.objects[f.c].client_state # "CONNECTED"
         THEN call_disconnect(goto(logged(m, f.c, f.msg, FALSE), t,
                                   [f EXCEPT !.pc = "in_try"]), t, f.c)
         ELSE goto(m, t, [f EXCEPT !.pc = "send_text"])
    ELSE IF f.pc = "in_try" /\ m.raised # "none"
    THEN call_disconnect(goto([m EXCEPT !.raised = "none"], t,
                              [f EXCEPT !.pc = "in_except"]), t, f.c)
    ELSE IF m.raised # "none"
    THEN pop(m, t)
    ELSE [pop(m, t) EXCEPT !.ret = FALSE]

\* ConnectionManager._send_to_connection: websocket.send_text returns or raises
send_text_done(m, t) ==
    LET f == top(m, t)
    IN  IF m.objects[f.c].send_raises
        THEN call_disconnect(goto(logged(m, f.c, f.msg, FALSE), t,
                                  [f EXCEPT !.pc = "in_except"]), t, f.c)
        ELSE [pop(logged(m, f.c, f.msg, TRUE), t) EXCEPT !.ret = TRUE]

\* ConnectionManager.disconnect
step_disconnect(m, t, f) ==
    LET user_id == m.objects[f.c].user_id
        uc == m.user_connections
        m0 == goto([m EXCEPT !.live = @ \ {f.c}], t, [f EXCEPT !.pc = "status_done"])
        lst == IF list_contains(uc[user_id], f.c)
               THEN list_remove(uc[user_id], f.c)
               ELSE uc[user_id]
    IN  IF f.pc = "start"
        THEN IF user_id \in DOMAIN uc
             THEN IF lst = << >>
                  THEN call_broadcast_user_status(
                           [m0 EXCEPT !.user_connections = map_del(uc, user_id)],
                           t, user_id, "offline")
                  ELSE [m0 EXCEPT !.user_connections[user_id] = lst]
             ELSE m0
        ELSE IF m.raised # "none"
        THEN pop(m, t)
        ELSE IF list_contains(m.connections, f.c)
        THEN pop([m EXCEPT !.connections = list_remove(@, f.c)], t)
        ELSE pop(m, t)

\* ConnectionManager._broadcast_user_status: the loop over the dict's items
step_broadcast_user_status(m, t, f, ch) ==
    LET subs == m.project_subscriptions
        todo == IF f.dirty
                THEN SelectSeq(dict_key_list(subs), LAMBDA p : p \in ch.projects)
                ELSE f.todo
        next == [f EXCEPT !.todo = Tail(todo), !.dirty = FALSE]
    IN  IF m.raised # "none"
        THEN pop(m, t)
        ELSE IF Len(subs) # f.n
        THEN [pop(m, t) EXCEPT !.raised = "RuntimeError"]
        ELSE IF todo = << >>
        THEN pop(m, t)
        ELSE IF f.user_id \in dict_get(subs, Head(todo))
        THEN call_broadcast_to_project(goto(m, t, next), t, Head(todo), f.msg, f.user_id, ch)
        ELSE goto(m, t, next)

\* ConnectionManager.broadcast_to_project: the loop over the subscriber set
step_broadcast_to_project(m, t, f, ch) ==
    LET users == IF f.gone THEN {} ELSE dict_get(m.project_subscriptions, f.project_id)
        todo == IF f.dirty THEN set_iter(users \cap ch.users, ch.ord) ELSE f.todo
        next == [f EXCEPT !.todo = Tail(todo), !.dirty = FALSE]
    IN  IF m.raised # "none"
        THEN pop(m, t)
        ELSE IF Cardinality(users) # f.n
        THEN [pop(m, t) EXCEPT !.raised = "RuntimeError"]
        ELSE IF todo = << >>
        THEN pop(m, t)
        ELSE IF f.user_id # None /\ Head(todo) = f.user_id
        THEN goto(m, t, next)
        ELSE call_send_to_user(goto(m, t, next), t, Head(todo), f.msg)

\* ConnectionManager.send_to_user: the loop over the user's list, then the
\* loop over dead_connections
step_send_to_user(m, t, f) ==
    LET lst == IF f.gone THEN << >> ELSE m.user_connections[f.user_id]
        dead == IF f.pc = "sent" /\ ~m.ret THEN Append(f.dead, f.c) ELSE f.dead
    IN  IF m.raised # "none"
        THEN pop(m, t)
        ELSE IF f.pc \in {"loop", "sent"}
        THEN IF f.i > Len(lst)
             THEN goto(m, t, [f EXCEPT !.pc = "cleanup", !.dead = dead, !.n = 1])
             ELSE call_send_to_connection(
                      goto(m, t, [f EXCEPT !.pc = "sent", !.dead = dead, !.c = lst[f.i],
                                           !.i = f.i + 1]),
                      t, lst[f.i], f.msg)
        ELSE IF f.n > Len(f.dead)
        THEN pop(m, t)
        ELSE call_disconnect(goto(m, t, [f EXCEPT !.n = f.n + 1]), t, f.dead[f.n])

\* ConnectionManager.cleanup_stale_connections: the loop over stale_connections
step_cleanup_stale_connections(m, t, f) ==
    IF m.raised # "none"
    THEN pop(m, t)
    ELSE IF f.i > Len(f.todo)
    THEN [pop(m, t) EXCEPT !.ret = Len(f.todo)]
    ELSE call_disconnect(goto(m, t, [f EXCEPT !.i = f.i + 1]), t, f.todo[f.i])

\* websocket_endpoint, from manager.connect to the finally clause
step_websocket_endpoint(m, t, f) ==
    IF f.pc = "connected"
    THEN \* connect: the confirmation was sent, the online status is broadcast
         IF m.raised # "none"
         THEN pop(m, t)
         ELSE call_broadcast_user_status(goto(m, t, [f EXCEPT !.pc = "online"]), t,
                                         m.objects[f.c].user_id, "online")
    ELSE IF f.pc = "online"
    THEN \* connect returns the connection and the message loop starts
         IF m.raised # "none" THEN pop(m, t) ELSE goto(m, t, [f EXCEPT !.pc = "receive"])
    ELSE IF f.pc = "handle_message"
    THEN \* except Exception around handle_message: an error frame
         IF m.raised # "none"
         THEN call_send_to_connection(
                  goto([m EXCEPT !.raised = "none"], t, [f EXCEPT !.pc = "reply"]),
                  t, f.c, Control("error", None, None))
         ELSE goto(m, t, [f EXCEPT !.pc = "receive"])
    ELSE IF f.pc = "reply"
    THEN \* a send of the loop itself: an exception breaks the loop
         IF m.raised # "none"
         THEN call_disconnect(
                  goto([m EXCEPT !.raised = "none"], t, [f EXCEPT !.pc = "finally"]),
                  t, f.c)
         ELSE goto(m, t, [f EXCEPT !.pc = "receive"])
    ELSE \* finally: disconnect has returned or raised, the handler ends
         pop(m, t)

\* a step of task t changed a container: the iterators on it, in every
\* coroutine, see the change (foreign: the change was another coroutine's)
mark_frame(b, a, f, other) ==
    IF f.fn = "send_to_user"
    THEN LET has == f.user_id \in DOMAIN a.user_connections
             changed == /\ ~f.gone
                        /\ f.user_id \in DOMAIN b.user_connections
                        /\ \/ ~has
                           \/ a.user_connections[f.user_id] # b.user_connections[f.user_id]
         IN  [f EXCEPT !.gone = @ \/ (changed /\ ~has), !.foreign = @ \/ (other /\ changed)]
    ELSE IF f.fn = "broadcast_to_project"
    THEN LET has == f.project_id \in dict_keys(a.project_subscriptions)
             changed == /\ ~f.gone
                        /\ f.project_id \in dict_keys(b.project_subscriptions)
                        /\ \/ ~has
                           \/ dict_get(a.project_subscriptions, f.project_id)
                                  # dict_get(b.project_subscriptions, f.project_id)
         IN  [f EXCEPT !.gone = @ \/ (changed /\ ~has), !.dirty = @ \/ changed,
                       !.foreign = @ \/ (other /\ changed)]
    ELSE IF f.fn = "_broadcast_user_status"
    THEN LET changed == dict_key_list(a.project_subscriptions)
                            # dict_key_list(b.project_subscriptions)
         IN  [f EXCEPT !.dirty = @ \/ changed, !.foreign = @ \/ (other /\ changed)]
    ELSE f

mark(b, a, t) ==
    LET frames(x) == [k \in DOMAIN a.tasks[x] |-> mark_frame(b, a, a.tasks[x][k], x # t)]
    IN  [a EXCEPT !.tasks = [x \in DOMAIN a.tasks |->
                                SubSeq(frames(x), 1, Len(a.tasks[x]))]]

\* one step of the call on top of task t's stack
step(m, t, ch) ==
    LET after(f) ==
            CASE f.fn = "_send_to_connection" -> step_send_to_connection(m, t, f)
              [] f.fn = "disconnect" -> step_disconnect(m, t, f)
              [] f.fn = "_broadcast_user_status" -> step_broadcast_user_status(m, t, f, ch)
              [] f.fn = "broadcast_to_project" -> step_broadcast_to_project(m, t, f, ch)
              [] f.fn = "send_to_user" -> step_send_to_user(m, t, f)
              [] f.fn = "cleanup_stale_connections" -> step_cleanup_stale_connections(m, t, f)
              [] OTHER -> step_websocket_endpoint(m, t, f)
    IN  CHOOSE r \in {mark(m, a, t) : a \in {after(f) : f \in {top(m, t)}}} : TRUE

\* task t awaits a transport: a write to complete, or the next inbound frame
sending(m, t) ==
    /\ m.tasks[t] # << >>
    /\ top(m, t).fn = "_send_to_connection"
    /\ top(m, t).pc = "send_text"

receiving(m, t) ==
    /\ m.tasks[t] # << >>
    /\ top(m, t).fn = "websocket_endpoint"
    /\ top(m, t).pc = "receive"

\* task t runs until it is suspended or has returned
RECURSIVE run(_, _, _)
run(m, t, ch) ==
    IF m.tasks[t] = << >> \/ sending(m, t) \/ receiving(m, t)
    THEN m
    ELSE CHOOSE r \in {run(n, t, ch) : n \in {step(m, t, ch)}} : TRUE

\* the choices open to task t when it runs
Chances(t) ==
    IF t \in DOMAIN tasks /\ \E k \in DOMAIN tasks[t] : tasks[t][k].dirty
    THEN Choices
    ELSE {ch \in Choices : ch.users = Users /\ ch.projects = Projects}

\* task t has run from the manager state it found (World) to r
Resume(r, t) ==
    /\ Commit(r)
    /\ tasks' = IF r.tasks[t] = << >> THEN map_del(r.tasks, t) ELSE r.tasks
    /\ endpoints' = IF r.tasks[t] = << >> THEN endpoints \ {t} ELSE endpoints

spawn(m, t, stack) == [m EXCEPT !.tasks = map_set(@, t, stack)]

\* websocket_endpoint: the token is valid, the handshake is accepted and
\* manager.connect registers the connection and sends the confirmation
HandlerConnects(user_id) ==
    /\ events < MaxEvents
    /\ DOMAIN objects # ConnIds
    /\ \E ch \in Chances(None) :
         LET c  == fresh_id(World)
             uc == user_connections
             m1 == [World EXCEPT
                      !.objects = map_set(@, c, [user_id |-> user_id, last_ping |-> now,
                                                 client_state |-> "CONNECTED",
                                                 send_raises |-> FALSE]),
                      !.user_connections =
                          map_set(uc, user_id,
                                  Append(IF user_id \in DOMAIN uc THEN uc[user_id] ELSE <<>>,
                                         c)),
                      !.connections = Append(@, c),
                      !.live = @ \cup {c}]
             m2 == spawn(m1, c, <<[Frame("websocket_endpoint", "connected") EXCEPT !.c = c]>>)
         IN  \E r \in {run(mark(World, call_send_to_connection(
                                            m2, c, c, Control("connected", user_id, None)), c),
                            c, ch)} :
                 /\ Commit(r)
                 /\ tasks' = IF r.tasks[c] = << >> THEN map_del(r.tasks, c) ELSE r.tasks
                 /\ endpoints' = IF r.tasks[c] = << >> THEN endpoints ELSE endpoints \cup {c}
    /\ events' = events + 1
    /\ UNCHANGED <<now, stalled, api>>

\* websocket_endpoint and handle_message: a text frame arrives
HandlerReceives(c) ==
    /\ events < MaxEvents
    /\ c \in DOMAIN tasks
    /\ receiving(World, c)
    /\ objects[c].client_state = "CONNECTED"
    /\ \E data \in Messages, ch \in Chances(c) :
         LET f == top(World, c)
             user_id == objects[c].user_id
             replying(m, pc, type) ==
                 call_send_to_connection(goto(m, c, [f EXCEPT !.pc = pc]), c, c,
                                         Control(type, None, data.project_id))
             m1 == IF data.type = "invalid_json"
                   THEN replying(World, "reply", "error")
                   ELSE IF data.type = "ping"
                   THEN replying([World EXCEPT !.objects[c].last_ping = now],
                                 "handle_message", "pong")
                   ELSE IF data.type = "subscribe_project" /\ data.project_id # None
                   THEN replying(subscribe_to_project(World, user_id, data.project_id),
                                 "handle_message", "subscribed")
                   ELSE IF data.type = "unsubscribe_project" /\ data.project_id # None
                   THEN replying(unsubscribe_from_project(World, user_id, data.project_id),
                                 "handle_message", "unsubscribed")
                   ELSE World
         IN  \E r \in {run(mark(World, m1, c), c, ch)} : Resume(r, c)
    /\ events' = events + 1
    /\ UNCHANGED <<now, stalled, api>>

\* websocket_endpoint: no frame within the receive timeout, a ping is sent
HandlerTimesOut(c) ==
    /\ events < MaxEvents
    /\ c \in DOMAIN tasks
    /\ receiving(World, c)
    /\ \E ch \in Chances(c) :
         \E r \in {run(call_send_to_connection(
                            goto(World, c, [top(World, c) EXCEPT !.pc = "reply"]), c, c,
                            Control("ping", None, None)),
                        c, ch)} : Resume(r, c)
    /\ events' = events + 1
    /\ UNCHANGED <<now, stalled, api>>

\* websocket_endpoint: receive raises (the client has closed, or the
\* transport failed), the loop breaks and the finally clause disconnects
HandlerCloses(c) ==
    /\ events < MaxEvents
    /\ c \in DOMAIN tasks
    /\ receiving(World, c)
    /\ \E ch \in Chances(c) :
         \E r \in {run(call_disconnect(
                            goto([World EXCEPT !.objects[c].client_state = "DISCONNECTED"], c,
                                 [top(World, c) EXCEPT !.pc = "finally"]), c, c),
                        c, ch)} : Resume(r, c)
    /\ events' = events + 1
    /\ UNCHANGED <<now, stalled, api>>

\* a task endpoint publishes an event of user_id on project_id
RequestBroadcasts(t, user_id, project_id) ==
    /\ events < MaxEvents
    /\ t \in Requests \ DOMAIN tasks
    /\ \E ch \in Chances(t) :
         \E r \in {run(call_broadcast_to_project(
                            spawn(World, t, << >>), t, project_id,
                            TaskEvent(user_id, project_id), user_id, ch),
                        t, ch)} : Resume(r, t)
    /\ events' = events + 1
    /\ UNCHANGED <<now, stalled, api>>

\* POST /ws/cleanup
RequestSweeps(t, max_ping_age_minutes) ==
    /\ events < MaxEvents
    /\ t \in Requests \ DOMAIN tasks
    /\ \E ch \in Chances(t) :
         LET stale == SelectSeq(connections,
                                LAMBDA c : objects[c].last_ping < now - max_ping_age_minutes)
         IN  \E r \in {run(spawn(World, t,
                                  <<[Frame("cleanup_stale_connections", "loop") EXCEPT
                                       !.todo = stale, !.i = 1]>>),
                            t, ch)} : Resume(r, t)
    /\ events' = events + 1
    /\ UNCHANGED <<now, stalled, api>>

\* the write a task awaits completes (or raises) and the task goes on
SendTextReturns(t) ==
    /\ t \in DOMAIN tasks
    /\ sending(World, t)
    /\ top(World, t).c \notin stalled
    /\ \E ch \in Chances(t) :
         \E r \in {run(mark(World, send_text_done(World, t), t), t, ch)} : Resume(r, t)
    /\ UNCHANGED <<now, stalled, events, api>>

\* the peer of a connection stops reading: writes to it no longer complete
PeerStalls(c) ==
    /\ events < MaxEvents
    /\ c \in endpoints \ stalled
    /\ objects[c].client_state = "CONNECTED"
    /\ stalled' = stalled \cup {c}
    /\ events' = events + 1
    /\ UNCHANGED <<user_connections, connections, project_subscriptions, objects, endpoints,
                   now, live, subscribed, tasks, api>>

ConcNext ==
    \/ \E u \in Users : HandlerConnects(u)
    \/ \E c \in ConnIds : HandlerReceives(c)
    \/ \E c \in ConnIds : HandlerTimesOut(c)
    \/ \E c \in ConnIds : HandlerCloses(c)
    \/ \E t \in Requests, u \in Users, p \in Projects : RequestBroadcasts(t, u, p)
    \/ \E t \in Requests, age \in 0..MaxTime : RequestSweeps(t, age)
    \/ \E t \in ConnIds \cup Requests : SendTextReturns(t)
    \/ \E c \in ConnIds : PeerStalls(c)
    \/ \E c \in ConnIds : TransportFails(c)
    \/ Tick

ConcSpec == Init /\ [][ConcNext]_vars

\* the event loop resumes a coroutine whose awaited write has completed
FairConcSpec == ConcSpec /\ \A t \in ConnIds \cup Requests : WF_vars(SendTextReturns(t))

\* ------------------------------------------------- task endpoints: actions
\* a client makes a request
Request(op, task_id, fields, hard) ==
    /\ Len(api.calls) < MaxCalls
    /\ op = "create_task" =>
         /\ api.tasks[task_id] = "absent"
         /\ \A k \in DOMAIN api.calls :
                ~(api.calls[k].op = "create_task" /\ api.calls[k].task_id = task_id)
    /\ op # "update_task" => fields
    /\ op # "delete_task" => ~hard
    /\ api' = [api EXCEPT !.calls = Append(@, Call(op, task_id, fields, hard,
                                                   IF op = "create_task"
                                                   THEN "create" ELSE "check"))]
    /\ UNCHANGED <<user_connections, connections, project_subscriptions, objects, endpoints,
                   now, live, subscribed, tasks, stalled, events>>

running(k, op) ==
    /\ k \in DOMAIN api.calls
    /\ api.calls[k].op = op
    /\ api.calls[k].pc # "done"

CreateTask(k) ==
    /\ running(k, "create_task")
    /\ \E ok \in BOOLEAN, manager_raises \in BOOLEAN :
         api' = create_task(api, k, ok, manager_raises)
    /\ UNCHANGED <<user_connections, connections, project_subscriptions, objects, endpoints,
                   now, live, subscribed, tasks, stalled, events>>

UpdateTask(k) ==
    /\ running(k, "update_task")
    /\ \E ok \in BOOLEAN, manager_raises \in BOOLEAN :
         api' = update_task(api, k, ok, manager_raises)
    /\ UNCHANGED <<user_connections, connections, project_subscriptions, objects, endpoints,
                   now, live, subscribed, tasks, stalled, events>>

DeleteTask(k) ==
    /\ running(k, "delete_task")
    /\ \E ok \in BOOLEAN, manager_raises \in BOOLEAN :
         api' = delete_task(api, k, ok, manager_raises)
    /\ UNCHANGED <<user_connections, connections, project_subscriptions, objects, endpoints,
                   now, live, subscribed, tasks, stalled, events>>

CompleteTask(k) ==
    /\ running(k, "complete_task")
    /\ \E ok \in BOOLEAN, manager_raises \in BOOLEAN :
         api' = complete_task(api, k, ok, manager_raises)
    /\ UNCHANGED <<user_connections, connections, project_subscriptions, objects, endpoints,
                   now, live, subscribed, tasks, stalled, events>>

TasksNext ==
    \/ \E op \in {"create_task", "update_task", "delete_task", "complete_task"},
          t \in TaskIds, fields \in BOOLEAN, hard \in BOOLEAN : Request(op, t, fields, hard)
    \/ \E k \in 1..MaxCalls : CreateTask(k)
    \/ \E k \in 1..MaxCalls : UpdateTask(k)
    \/ \E k \in 1..MaxCalls : DeleteTask(k)
    \/ \E k \in 1..MaxCalls : CompleteTask(k)

TasksSpec == Init /\ [][TasksNext]_vars

\* ------------------------------------------------------------------ claims
Orders == Permutations(Users)

\* the connections registered for a user, the subscribers of a project
connections_of(m, user_id) ==
    IF user_id \in DOMAIN m.user_connections
    THEN list_elems(m.user_connections[user_id])
    ELSE {}

subscribers_of(m, project_id) ==
    IF project_id \in dict_keys(m.project_subscriptions)
    THEN dict_get(m.project_subscriptions, project_id)
    ELSE {}

\* the connections a task event of user_id on project_id is meant for
targets(m, user_id, project_id) ==
    UNION {connections_of(m, u) : u \in subscribers_of(m, project_id) \ {user_id}}

healthy(m, c) == m.objects[c].client_state = "CONNECTED" /\ ~m.objects[c].send_raises

attempts(r, msg) == {i \in DOMAIN r.log : r.log[i].frame = msg}

delivered(r, c, msg) == \E i \in attempts(r, msg) : r.log[i].to = c /\ r.log[i].ok

failed(r) == {r.log[i].to : i \in {j \in DOMAIN r.log : ~r.log[j].ok}}

C2_NoEchoNoStranger ==
    \A u \in Users, p \in Projects, ord \in Orders :
        LET r == broadcast_task_event(World, u, p, ord)
        IN  \A i \in attempts(r, TaskEvent(u, p)) :
                /\ r.log[i].user_id # u
                /\ r.log[i].user_id \in subscribers_of(World, p)

\* the originator is subscribed and connected, a send of the broadcast fails,
\* and the originator's connection gets no task event
C2_Witness ==
    \E u \in Users, p \in Projects, ord \in Orders :
        LET r == broadcast_task_event(World, u, p, ord)
        IN  /\ u \in subscribers_of(World, p)
            /\ connections_of(World, u) # {}
            /\ failed(r) # {}
            /\ attempts(r, TaskEvent(u, p)) # {}

\* C3 (as claimed): a failed send does not keep the event from the other target
\* connections: every target connection whose transport works receives it.
C3_FailureDoesNotStopDelivery ==
    \A u \in Users, p \in Projects, ord \in Orders :
        LET r == broadcast_task_event(World, u, p, ord)
        IN  \A c \in targets(World, u, p) :
                healthy(World, c) => delivered(r, c, TaskEvent(u, p))

registered(m, c) ==
    \/ list_contains(m.connections, c)
    \/ \E u \in DOMAIN m.user_connections : list_contains(m.user_connections[u], c)

\* C4: every connection whose send fails during a broadcast is unregistered when
\* the broadcast returns: it is in neither connections nor a user's list.
C4_FailedSendUnregisters ==
    \A u \in Users, p \in Projects, ord \in Orders :
        LET r == broadcast_task_event(World, u, p, ord)
        IN  \A c \in failed(r) : ~registered(r, c)

\* a broadcast in which the send to a registered connection fails
C4_Witness ==
    \E u \in Users, p \in Projects, ord \in Orders :
        LET r == broadcast_task_event(World, u, p, ord)
        IN  \E c \in failed(r) :
                /\ list_contains(connections, c)
                /\ ~registered(r, c)
                /\ attempts(r, TaskEvent(u, p)) # {}

C6_RegistryTracksLiveConnections ==
    /\ list_elems(connections) = live
    /\ Len(connections) = Cardinality(live)
    /\ \A u \in Users :
         /\ connections_of(World, u) = {c \in live : objects[c].user_id = u}
         /\ u \in DOMAIN user_connections <=> \E c \in live : objects[c].user_id = u
         /\ u \in DOMAIN user_connections =>
                Len(user_connections[u]) = Cardinality(connections_of(World, u))

\* connection 2 was registered while connection 1 was live (ids are the least
\* unused), connection 1 has since been disconnected and its handler has
\* returned, and its user keeps another registered connection or none
C6_Witness ==
    /\ 2 \in live
    /\ 1 \notin DOMAIN objects
    /\ connections = <<2>>
    /\ DOMAIN user_connections = {objects[2].user_id}

\* C7: project_subscriptions[P] is exactly the set of users whose last subscribe
\* or unsubscribe call on P subscribed; subscribing twice equals subscribing
\* once, unsubscribing a non-member changes no subscription, and a broadcast
\* changes no subscription.
C7_SubscriptionsFollowLastCall ==
    /\ \A p \in Projects : subscribers_of(World, p) = {u \in Users : <<u, p>> \in subscribed}
    /\ \A u \in Users, p \in Projects :
         LET once == subscribe_to_project(World, u, p)
         IN  /\ subscribe_to_project(once, u, p) = once
             /\ u \notin subscribers_of(World, p) =>
                    unsubscribe_from_project(World, u, p) = World
    /\ \A u \in Users, p \in Projects, ord \in Orders :
         broadcast_task_event(World, u, p, ord).project_subscriptions
             = project_subscriptions

\* two users are subscribed to one project, one of them to no other, and an
\* unsubscribe call of that one leaves the other subscribed
C7_Witness ==
    \E p \in Projects, u \in Users :
        /\ Cardinality(subscribers_of(World, p)) = 2
        /\ \A q \in Projects \ {p} : u \notin subscribers_of(World, q)
        /\ subscribers_of(unsubscribe_from_project(World, u, p), p)
               = subscribers_of(World, p) \ {u}

\* C8 (as claimed): when the handler's cleanup or the stale sweep removes a user's
\* last registered connection, the user is in no project's subscriber set.
C8_LastDisconnectUnsubscribes ==
    /\ \A c \in endpoints, ord \in Orders :
         LET r == endpoint_close(World, c, ord)
             u == objects[c].user_id
         IN  (u \in DOMAIN user_connections /\ u \notin DOMAIN r.user_connections)
                 => \A p \in Projects : u \notin subscribers_of(r, p)
    /\ \A age \in 0..MaxTime, ord \in Orders :
         LET r == cleanup_stale_connections(World, age, ord)
         IN  \A u \in DOMAIN user_connections \ DOMAIN r.user_connections :
                 \A p \in Projects : u \notin subscribers_of(r, p)

\* C9: at rest no key of user_connections maps to an empty list and no key of
\* project_subscriptions maps to an empty set.
C9_NoEmptyEntries ==
    /\ \A u \in DOMAIN user_connections : user_connections[u] # << >>
    /\ \A i \in DOMAIN project_subscriptions : project_subscriptions[i].val # {}

\* the cleanup of a handler removes its user's last connection and an
\* unsubscribe call removes a project's last subscriber: both entries go
C9_Witness ==
    /\ \E c \in endpoints, ord \in Orders :
         /\ objects[c].user_id \in DOMAIN user_connections
         /\ user_connections[objects[c].user_id] = <<c>>
         /\ objects[c].user_id \notin DOMAIN endpoint_close(World, c, ord).user_connections
    /\ \E u \in Users, p \in Projects :
         /\ subscribers_of(World, p) = {u}
         /\ p \notin dict_keys(unsubscribe_from_project(World, u, p).project_subscriptions)

\* C10: disconnect of a connection that is already unregistered raises nothing,
\* sends nothing and changes nothing.
C10_DisconnectIdempotent ==
    \A c \in DOMAIN objects, ord \in Orders :
        ~registered(World, c) => disconnect(World, c, ord) = World

\* a connection unregistered by a failed send whose handler has still to run
\* its cleanup, while its user keeps another connection registered
C10_Witness ==
    \E c \in endpoints :
        /\ ~registered(World, c)
        /\ objects[c].user_id \in DOMAIN user_connections
        /\ \A ord \in Orders : endpoint_close(World, c, ord).log = << >>

\* the connections of the other subscribers of the projects user_id subscribes to
audience(m, user_id) ==
    UNION {connections_of(m, v) :
             v \in UNION {subscribers_of(m, p) :
                            p \in {q \in Projects : user_id \in subscribers_of(m, q)}}
                   \ {user_id}}

status_calls(r, user_id, status) ==
    {i \in DOMAIN r.statuses : r.statuses[i] = [user_id |-> user_id, status |-> status]}

\* C11: disconnect(c) broadcasts the offline status of c's user exactly when c
\* was the user's last registered connection (once, and not at all otherwise);
\* the status goes only to connections of other subscribers of the user's
\* projects, never to the user's own, and reaches all of them when no send fails.
C11_OfflineExactlyOnLastConnection ==
    \A c \in DOMAIN objects, ord \in Orders :
        LET u == objects[c].user_id
            r == disconnect(World, c, ord)
            last == connections_of(World, u) = {c}
            msg == UserStatus(u, "offline")
        IN  /\ Cardinality(status_calls(r, u, "offline")) = IF last THEN 1 ELSE 0
            /\ ~last => r.log = << >>
            /\ \A i \in attempts(r, msg) :
                   r.log[i].user_id # u /\ r.log[i].to \in audience(World, u)
            /\ (last /\ failed(r) = {}) =>
                   \A x \in audience(World, u) : delivered(r, x, msg)

\* the last connection of a subscribed user is disconnected and the offline
\* status reaches the connections of another subscriber
C11_Witness ==
    /\ \E c \in DOMAIN objects, ord \in Orders :
         LET u == objects[c].user_id
             r == disconnect(World, c, ord)
         IN  /\ connections_of(World, u) = {c}
             /\ audience(World, u) # {}
             /\ \A x \in audience(World, u) : delivered(r, x, UserStatus(u, "offline"))

\* the registered connections whose last ping is older than the cutoff
stale_connections(m, max_ping_age_minutes) ==
    {c \in list_elems(m.connections) :
         m.objects[c].last_ping < now - max_ping_age_minutes}

\* C12 (as claimed): cleanup_stale_connections(m) unregisters exactly the stale
\* connections, leaves every other connection registered and returns the
\* number of connections it unregistered; with no stale connection it returns
\* 0 and changes nothing.
C12_SweepRemovesExactlyStale ==
    \A age \in 0..MaxTime, ord \in Orders :
        LET r == cleanup_stale_connections(World, age, ord)
            stale == stale_connections(World, age)
            gone == {c \in DOMAIN objects : registered(World, c) /\ ~registered(r, c)}
        IN  /\ gone = stale
            /\ r.ret = Cardinality(gone)
            /\ stale = {} => r = [World EXCEPT !.ret = 0]

\* the tasks suspended in a write to connection c
writers(c) ==
    {t \in DOMAIN tasks : sending(World, t) /\ top(World, t).c = c}

\* C13: writes to one connection's transport are serialized: at no time are
\* two sends in progress on the same connection
C13_WritesSerialized ==
    \A c \in DOMAIN objects : Cardinality(writers(c)) <= 1

\* the suspended tasks with an iteration in progress whose container was
\* changed by a coroutine other than the one iterating
disturbed ==
    {t \in DOMAIN tasks : \E k \in DOMAIN tasks[t] : tasks[t][k].foreign}

\* C14: while a broadcast or status broadcast is suspended at a send, part-way
\* through iterating project_subscriptions, a subscriber set or a user's
\* connection list, no other coroutine mutates the structure being iterated
C14_NoMutationUnderIteration == disturbed = {}

\* a task-event broadcast made by request t has not returned to its caller
broadcasting(t) ==
    /\ t \in DOMAIN tasks
    /\ tasks[t][1].fn = "broadcast_to_project"

\* C15: a blocked client does not stall a broadcast: whatever send never
\* completes, the broadcast eventually returns to its caller
C15_BroadcastReturns ==
    \A t \in Requests : broadcasting(t) ~> ~broadcasting(t)

\* both users are connected, their handlers wait for a frame, and both are
\* subscribed to the first project: the state after two handshakes and two
\* subscribe_project frames
SessionsInit ==
    /\ user_connections = [u \in Users |-> <<u>>]
    /\ connections = [c \in ConnIds |-> c]
    /\ project_subscriptions = <<[key |-> 1, val |-> Users]>>
    /\ objects = [c \in ConnIds |-> [user_id |-> c, last_ping |-> 0,
                                     client_state |-> "CONNECTED", send_raises |-> FALSE]]
    /\ endpoints = ConnIds
    /\ now = 0
    /\ live = ConnIds
    /\ subscribed = {<<u, 1>> : u \in Users}
    /\ tasks = [c \in ConnIds |-> <<[Frame("websocket_endpoint", "receive") EXCEPT !.c = c]>>]
    /\ stalled = {}
    /\ events = 0
    /\ api = [tasks |-> Tables, calls |-> << >>, published |-> << >>]

\* the clients of the established sessions send frames, stay silent or close
SessionsNext ==
    \/ \E c \in ConnIds : HandlerReceives(c)
    \/ \E c \in ConnIds : HandlerTimesOut(c)
    \/ \E c \in ConnIds : HandlerCloses(c)
    \/ \E t \in ConnIds : SendTextReturns(t)

SessionsSpec == SessionsInit /\ [][SessionsNext]_vars

\* C16: whenever the receive loop of a registered connection ends, disconnect
\* is called for it: once the endpoint handler has returned, the connection is
\* in neither connections nor user_connections
C16_ReturnedHandlerUnregistered ==
    \A c \in DOMAIN objects \ endpoints : ~registered(World, c)

\* C17: if token verification yields no user, the endpoint closes the
\* transport with the policy-violation code without calling connect: nothing
\* is registered, no frame is sent, no status is broadcast, and connections,
\* user_connections and project_subscriptions are unchanged
C17_RejectedHandshakeRegistersNothing ==
    \A token \in Tokens, send_raises \in BOOLEAN, ord \in Orders :
        get_current_user_websocket(token) = None =>
            LET r == websocket_endpoint_connect(World, token, send_raises, ord)
            IN  /\ r.ret = WS_1008_POLICY_VIOLATION
                /\ r.log = << >> /\ r.statuses = << >>
                /\ r.objects = objects
                /\ r.connections = connections
                /\ r.user_connections = user_connections
                /\ r.project_subscriptions = project_subscriptions

\* a handshake without a user is rejected while a connection object is free
\* and another user's connection is registered and subscribed
C17_Witness ==
    /\ DOMAIN objects # ConnIds
    /\ connections # << >>
    /\ project_subscriptions # << >>
    /\ \E ord \in Orders :
         websocket_endpoint_connect(World, None, FALSE, ord).ret = WS_1008_POLICY_VIOLATION

\* the connections whose handler can be given a frame
receivers == {c \in endpoints : objects[c].client_state = "CONNECTED"}

Ping == [type |-> "ping", project_id |-> None]

Pong == Control("pong", None, None)

\* C18 as claimed: handling a ping on a connection sets its last_ping to the
\* current time and sends exactly one pong frame, to that connection only; the
\* registry maps and the subscriptions are unchanged
C18_PingLeavesRegistryAlone ==
    \A c \in receivers, ord \in Orders :
        LET r == handle_message(World, c, Ping, ord)
        IN  /\ r.objects[c].last_ping = now
            /\ Cardinality(attempts(r, Pong)) = 1
            /\ \A i \in attempts(r, Pong) : r.log[i].to = c
            /\ r.connections = connections
            /\ r.user_connections = user_connections
            /\ r.project_subscriptions = project_subscriptions

\* C18 amended: handling a ping on a connection sets its last_ping to the
\* current time and makes exactly one send of a pong frame, to that connection
\* only, and the subscriptions are unchanged; when that send succeeds nothing
\* else is sent and the registry maps are unchanged, and when it fails the
\* connection is unregistered
C18_PingAnsweredOnce ==
    \A c \in receivers, ord \in Orders :
        LET r == handle_message(World, c, Ping, ord)
        IN  /\ r.raised = "none"
            /\ r.objects[c].last_ping = now
            /\ Cardinality(attempts(r, Pong)) = 1
            /\ \A i \in attempts(r, Pong) : r.log[i].to = c
            /\ r.project_subscriptions = project_subscriptions
            /\ IF delivered(r, c, Pong)
               THEN /\ Len(r.log) = 1
                    /\ r.connections = connections
                    /\ r.user_connections = user_connections
               ELSE ~registered(r, c)

\* a ping is answered on a connection whose heartbeat is older than the
\* current time, and the pong is delivered
C18_Witness ==
    \E c \in receivers, ord \in Orders :
        /\ objects[c].last_ping < now
        /\ delivered(handle_message(World, c, Ping, ord), c, Pong)

Unknown == [type |-> "unknown", project_id |-> None]

ErrorFrame == Control("error", None, None)

\* C19: a message whose type is not ping, subscribe_project or
\* unsubscribe_project yields exactly one error frame sent to the same
\* connection, does not close or unregister the connection, and changes no
\* registry, subscription or heartbeat state
C19_UnknownTypeYieldsError ==
    \A c \in receivers, ord \in Orders :
        healthy(World, c) =>
            LET r == endpoint_receive(World, c, Unknown, ord)
            IN  /\ Cardinality(attempts(r, ErrorFrame)) = 1
                /\ delivered(r, c, ErrorFrame)
                /\ r.ret = "loop"
                /\ r.connections = connections
                /\ r.user_connections = user_connections
                /\ r.project_subscriptions = project_subscriptions
                /\ r.objects = objects

InvalidJson == [type |-> "invalid_json", project_id |-> None]

Subscribe(p) == [type |-> "subscribe_project", project_id |-> p]

Unsubscribe(p) == [type |-> "unsubscribe_project", project_id |-> p]

\* the acks (of either kind, for any project) a call tried to send
acks(r) ==
    {i \in DOMAIN r.log : r.log[i].frame.event \in {"subscribed", "unsubscribed"}}

\* the subscriptions of m other than that of user u to project p
other_subscriptions(m, u, p) ==
    {<<v, q>> \in Users \X Projects : v \in subscribers_of(m, q)} \ {<<u, p>>}

\* C21: handling subscribe_project (resp. unsubscribe_project) with project id
\* p on a connection of user u adds u to (resp. removes u from)
\* project_subscriptions[p] and sends exactly one subscribed (resp.
\* unsubscribed) ack carrying p, to that connection only; the subscription is
\* recorded for the user, not for the connection
C21_SubscribeFramesActOnTheUser ==
    \A c \in receivers, p \in Projects, ord \in Orders :
        LET u == objects[c].user_id
            s == handle_message(World, c, Subscribe(p), ord)
            t == handle_message(World, c, Unsubscribe(p), ord)
        IN  /\ u \in subscribers_of(s, p)
            /\ u \notin subscribers_of(t, p)
            /\ other_subscriptions(s, u, p) = other_subscriptions(World, u, p)
            /\ other_subscriptions(t, u, p) = other_subscriptions(World, u, p)
            /\ Cardinality(acks(s)) = 1 /\ Cardinality(acks(t)) = 1
            /\ \A i \in acks(s) :
                   s.log[i].to = c /\ s.log[i].frame = Control("subscribed", None, p)
            /\ \A i \in acks(t) :
                   t.log[i].to = c /\ t.log[i].frame = Control("unsubscribed", None, p)
            /\ \A d \in receivers :
                   objects[d].user_id = u =>
                       /\ handle_message(World, d, Subscribe(p), ord).project_subscriptions
                              = s.project_subscriptions
                       /\ handle_message(World, d, Unsubscribe(p), ord).project_subscriptions
                              = t.project_subscriptions

\* a user with two registered connections, not yet subscribed to a project,
\* subscribes on one of them and the ack is delivered to that one
C21_Witness ==
    \E c \in receivers, p \in Projects, ord \in Orders :
        LET u == objects[c].user_id
        IN  /\ Cardinality(connections_of(World, u)) = 2
            /\ u \notin subscribers_of(World, p)
            /\ delivered(handle_message(World, c, Subscribe(p), ord), c,
                         Control("subscribed", None, p))

\* the events request k has published
events_of(k) == {i \in DOMAIN api.published : api.published[i].call = k}

\* C22: every task request (create, update, delete, complete) publishes at
\* most one event, and only once its mutation is committed: a request whose
\* mutation raised, or an update request without fields, has published none.
C22_PublishOnceAfterCommit ==
    \A k \in DOMAIN api.calls :
        LET c == api.calls[k]
        IN  /\ Cardinality(events_of(k)) <= 1
            /\ events_of(k) # {} =>
                 /\ c.committed
                 /\ c.pc \in {"broadcast", "done"}
                 /\ c.raised = "none"
                 /\ c.op = "update_task" => c.fields
            /\ c.raised \in {"NotFoundError", "ValueError", "DBError"} => events_of(k) = {}
            /\ (c.op = "update_task" /\ ~c.fields) => events_of(k) = {}

\* a request has published its event after its commit, and an update without
\* fields has returned without publishing
C22_Witness ==
    \E k, j \in DOMAIN api.calls :
        /\ Cardinality(events_of(k)) = 1
        /\ api.calls[k].committed /\ api.calls[k].response = "ok"
        /\ api.calls[j].op = "update_task" /\ ~api.calls[j].fields
        /\ api.calls[j].response = "ok" /\ events_of(j) = {}

\* C23: TaskEventBroadcaster.broadcast_task_event never raises into the
\* endpoint: a request whose mutation is committed and that reached the
\* broadcaster (no commit failed) ends with its response, never with an
\* exception, whether the publish succeeded or not.
C23_BroadcasterNeverRaises ==
    \A k \in DOMAIN api.calls :
        LET c == api.calls[k]
        IN  (c.pc = "done" /\ c.committed /\ c.raised # "DBError") =>
                /\ c.raised = "none"
                /\ c.response = "ok"

PingFrame == Control("ping", None, None)

\* C24: a receive timeout does not end the receive loop and does not by
\* itself unregister the connection: the server makes one send of a ping
\* frame, to that connection, and waits again; when the ping is written
\* nothing else is sent and nothing changes, and the connection leaves the
\* registry only when the transport failed to write the ping
C24_TimeoutPingsAndWaits ==
    \A c \in receivers, ord \in Orders :
        LET r == endpoint_timeout(World, c, ord)
        IN  /\ r.ret = "loop"
            /\ r.raised = "none"
            /\ Cardinality(attempts(r, PingFrame)) = 1
            /\ \A i \in attempts(r, PingFrame) : r.log[i].to = c
            /\ r.project_subscriptions = project_subscriptions
            /\ delivered(r, c, PingFrame) =>
                 /\ Len(r.log) = 1
                 /\ r.connections = connections
                 /\ r.user_connections = user_connections
                 /\ r.objects = objects
            /\ (registered(World, c) /\ ~registered(r, c)) => c \in failed(r)

\* a timeout on a registered connection: the ping is delivered, the
\* connection stays registered and its handler stays in the loop
C24_Witness ==
    \E c \in receivers, ord \in Orders :
        LET r == endpoint_timeout(World, c, ord)
        IN  /\ registered(World, c)
            /\ delivered(r, c, PingFrame)
            /\ registered(r, c)
            /\ r.ret = "loop"

\* the number of entries of c in the users' lists
listed(c) ==
    Cardinality({<<u, k>> \in Users \X (1..MaxConnections) :
                    /\ u \in DOMAIN user_connections
                    /\ k \in DOMAIN user_connections[u]
                    /\ user_connections[u][k] = c})

\* C25: whenever the coroutines are suspended the two maps agree: connection
\* ids are unique, every connection in connections is listed exactly once and
\* under its own user, every listed connection is in connections, and the
\* number of connections is the sum of the lengths of the users' lists
C25_MapsAgree ==
    /\ \A i, j \in DOMAIN connections : connections[i] = connections[j] => i = j
    /\ \A i \in DOMAIN connections :
         LET c == connections[i]
         IN  /\ listed(c) = 1
             /\ objects[c].user_id \in DOMAIN user_connections
             /\ list_contains(user_connections[objects[c].user_id], c)
    /\ \A u \in DOMAIN user_connections :
         \A k \in DOMAIN user_connections[u] :
             list_contains(connections, user_connections[u][k])
    /\ Len(connections) = Cardinality({c \in ConnIds : listed(c) > 0})

\* the frames a client sends besides its own ping: a subscription, and its
\* reply to the ping of the server
Inbound == {Subscribe(p) : p \in Projects} \cup {[type |-> "pong", project_id |-> None]}

\* C26: the sweep evicts only connections that stopped responding: a
\* connection on which a frame has just been received (within the last
\* max_ping_age_minutes, whatever that age is) and whose transport works is
\* still registered after cleanup_stale_connections
C26_SweepSparesResponsive ==
    \A c \in receivers, data \in Inbound, age \in 0..MaxTime, ord \in Orders :
        LET r == endpoint_receive(World, c, data, ord)
            s == cleanup_stale_connections(r, age, ord)
        IN  (healthy(r, c) /\ registered(r, c)) => registered(s, c)

\* C27: a connection whose receive loop is running is registered, in
\* connections and in the list of its user
C27_RunningLoopIsRegistered ==
    \A c \in endpoints :
        /\ list_contains(connections, c)
        /\ objects[c].user_id \in DOMAIN user_connections
        /\ list_contains(user_connections[objects[c].user_id], c)

\* the user_status frames about user_id among the sends of a call, in order
announced(r, user_id) ==
    SelectSeq(r.log, LAMBDA e : e.frame.event = "user_status" /\ e.frame.user_id = user_id)

\* what the registry says about user_id
presence(m, user_id) == IF connections_of(m, user_id) = {} THEN "offline" ELSE "online"

\* C28: presence announcements match the registry: when a connect (its
\* confirmation written or not) or a disconnect has returned, the last
\* user_status frame it sent about a user is offline if the user has no
\* registered connection and online if the user has one
C28_PresenceMatchesRegistry ==
    \A u \in Users, ord \in Orders :
        /\ \A token \in Users, send_raises \in BOOLEAN :
             DOMAIN objects # ConnIds =>
                 LET r == websocket_endpoint_connect(World, token, send_raises, ord)
                     a == announced(r, u)
                 IN  a # << >> => a[Len(a)].frame.status = presence(r, u)
        /\ \A c \in DOMAIN objects :
             LET r == disconnect(World, c, ord)
                 a == announced(r, u)
             IN  a # << >> => a[Len(a)].frame.status = presence(r, u)

\* Project.owner_id in the database: every project has one owner and no
\* other member
owner_id(project_id) == ((project_id - 1) % NumUsers) + 1

\* TaskPermissionChecker.check_project_access: access is granted
check_project_access(project_id, user_id) == owner_id(project_id) = user_id

\* C29: a user is in a project's subscriber set only with access to the
\* project: a subscribe_project frame naming a project the user has no access
\* to does not subscribe them, and a task event published by the project's
\* owner is delivered to no connection of a user without access
C29_SubscribersHaveAccess ==
    /\ \A p \in Projects : \A u \in subscribers_of(World, p) : check_project_access(p, u)
    /\ \A c \in receivers, p \in Projects, ord \in Orders :
         LET u == objects[c].user_id
         IN  u \in subscribers_of(handle_message(World, c, Subscribe(p), ord), p)
                 => check_project_access(p, u)
    /\ \A p \in Projects, ord \in Orders :
         LET r == broadcast_task_event(World, owner_id(p), p, ord)
         IN  \A i \in attempts(r, TaskEvent(owner_id(p), p)) :
                 r.log[i].ok => check_project_access(p, r.log[i].user_id)

\* the sends of a call r that started in the current state form a bounded
\* cascade: the call returns, a connection whose send failed is not written
\* to again, only registered connections are written to, and there are no
\* more failures than registered connections and no more offline broadcasts
\* than users with connections
cascade_bounded(r) ==
    /\ r.raised = "none"
    /\ \A i, j \in DOMAIN r.log : (i < j /\ ~r.log[i].ok) => r.log[j].to # r.log[i].to
    /\ \A i \in DOMAIN r.log : registered(World, r.log[i].to)
    /\ Cardinality(failed(r)) <= Len(connections)
    /\ \A c \in failed(r) : ~registered(r, c)
    /\ Cardinality({i \in DOMAIN r.statuses : r.statuses[i].status = "offline"})
           <= Cardinality(DOMAIN user_connections)

\* C30: every call of disconnect, broadcast_task_event and
\* cleanup_stale_connections terminates, also when sends fail and each failure
\* starts a nested disconnect with its own offline broadcast: a nested
\* disconnect removes a connection that is not visited again, so the cascade
\* is bounded by the number of registered connections
C30_CascadesTerminate ==
    \A ord \in Orders :
        /\ \A c \in DOMAIN objects : cascade_bounded(disconnect(World, c, ord))
        /\ \A u \in Users, p \in Projects :
               cascade_bounded(broadcast_task_event(World, u, p, ord))
        /\ \A age \in 0..MaxTime :
               cascade_bounded(cleanup_stale_connections(World, age, ord))

\* a broadcast whose first failed send starts a disconnect whose offline
\* broadcast fails in turn: two connections are removed by one call
C30_Witness ==
    \E u \in Users, p \in Projects, ord \in Orders :
        LET r == broadcast_task_event(World, u, p, ord)
        IN  /\ Cardinality(failed(r)) >= 2
            /\ Len(r.statuses) >= 2
            /\ r.raised = "none"

====
